---- MODULE Spec2Model ----
(***************************************************************************)
(* Feed ranking and composition of the social-media backend                *)
(* (Development/backend/routes/feed.js) together with the store it reads   *)
(* (posts, likes, comments, follow lists) and the handlers that write it.  *)
(*                                                                         *)
(* Modelled state: the Post collection (author, isPublic, likes, comments, *)
(* createdAt) and the following / followers arrays of the User collection, *)
(* which are all that the feed queries read.                               *)
(*                                                                         *)
(* The likedPosts and notifications arrays of the User collection, the     *)
(* responses of the like, follow, unfollow and delete-comment requests and *)
(* the Home page of the client are modelled too. In the specifications of  *)
(* the feeds the writing handlers appear by their effect on what the feeds *)
(* read (CreatePost, LikePost, AddComment, FollowUser); in the             *)
(* specifications of the interactions the same handlers appear whole, one  *)
(* awaited store call at a time.                                           *)
(*                                                                         *)
(* Time: createdAt is counted in whole days; two posts created at the same *)
(* instant carry the same createdAt.                                       *)
(***************************************************************************)
EXTENDS Integers, Sequences, FiniteSets, TLC

VARIABLES posts, following, followers, resp, prev, call,
          likedPosts, notifications, reqs, log, home

\* What no feed handler reads or writes: the other arrays of the user
\* documents, the interaction requests under way and their responses, and
\* the Home page of the client.
aside == <<likedPosts, notifications, reqs, log, home>>

vars == <<posts, following, followers, resp, prev, call, aside>>
store == <<posts, following, followers>>

(* ------------------------------ bounds -------------------------------- *)
\* Posts that may be created.
MaxPosts == 2
\* Posts + likes + comments + follow edges that the store may hold.
MaxStoreSize == 3
\* Writes served between the store calls of one feed request.
MaxWritesInFlight == 2

Users == {1, 2, 3}
\* The authenticated users that issue feed requests.
Viewers == {1}
\* Users that issue follow requests.
FollowRequesters == {1}
\* Users that like and comment.
Likers == {2}
Commenters == {2}
\* The page and limit query parameters after parseInt: <<>> is NaN (the
\* parameter is absent or not a number), <<n>> the number n.
RawPages == {<<>>, <<-1>>, <<0>>, <<2>>}
RawLimits == {<<>>, <<-1>>, <<0>>, <<1>>, <<2>>}
\* The pages and limits of the requests that are compared pairwise.
PairPages == {<<1>>, <<2>>}
PairLimits == {<<1>>, <<2>>}

(* ------------------------------ helpers ------------------------------- *)
RECURSIVE SumSeq(_)
SumSeq(s) == IF s = <<>> THEN 0 ELSE Head(s) + SumSeq(Tail(s))

Range(s) == {s[i] : i \in DOMAIN s}

\* Array.prototype.includes
Includes(s, x) == \E i \in DOMAIN s : s[i] = x

\* Array.prototype.filter(id => !id.equals(x))
RECURSIVE Without(_, _)
Without(s, x) ==
  IF s = <<>> THEN <<>>
  ELSE IF Head(s) = x THEN Without(Tail(s), x)
       ELSE <<Head(s)>> \o Without(Tail(s), x)

PostIds == DOMAIN posts

StoreSize ==
  Len(posts)
  + SumSeq([i \in DOMAIN posts |-> Len(posts[i].likes) + Len(posts[i].comments)])
  + SumSeq([u \in 1..Cardinality(Users) |-> Len(following[u])])

\* Date.now at the creation of a post: the instant of the latest post or a
\* day later.
LastTime == IF posts = <<>> THEN 0 ELSE posts[Len(posts)].createdAt
CreationTimes == IF posts = <<>> THEN {0} ELSE {LastTime, LastTime + 1}

(* ------------------------- arithmetic of the handlers ----------------- *)
Min(a, b) == IF a < b THEN a ELSE b
Max(a, b) == IF a > b THEN a ELSE b
Abs(a) == IF a < 0 THEN 0 - a ELSE a

\* parseInt(q) || dflt: NaN and 0 are both falsy.
ParseOr(q, dflt) == IF q = <<>> THEN dflt ELSE IF q[1] = 0 THEN dflt ELSE q[1]

\* Math.floor(limit * 0.7). The double product and the exact one have the
\* same floor for every |limit| < 90, which covers the limits used here.
FollowingPostsCount(limit) == (7 * limit) \div 10

\* CeilDiv as Math.floor(total / limit) + 1.
CeilDivFloorPlusOne(total, limit) ==
  IF limit > 0 THEN (total \div limit) + 1
  ELSE (0 - ((0 - total) \div (0 - limit))) + 1

\* Math.ceil(total / limit); limit is never 0 (ParseOr).
CeilDiv(total, limit) ==
  IF limit > 0 THEN 0 - ((0 - total) \div limit)
  ELSE 0 - (total \div (0 - limit))

\* JsSlice without its end index: slice(start).
JsSliceToTheEnd(s, start, end) ==
  LET n == Len(s)
      from == IF start < 0 THEN Max(n + start, 0) ELSE Min(start, n)
  IN  SubSeq(s, from + 1, n)

\* Array.prototype.slice(start, end)
JsSlice(s, start, end) ==
  LET n == Len(s)
      from == IF start < 0 THEN Max(n + start, 0) ELSE Min(start, n)
      to == IF end < 0 THEN Max(n + end, 0) ELSE Min(end, n)
  IN  SubSeq(s, from + 1, to)

(* ------------------------------ documents ----------------------------- *)
\* A post document as a query returns it, tagged with the query it came
\* from.
Doc(id, origin) ==
  [id |-> id, author |-> posts[id].author, isPublic |-> posts[id].isPublic,
   likes |-> posts[id].likes, comments |-> posts[id].comments,
   createdAt |-> posts[id].createdAt, origin |-> origin]

\* The documents as the response body carries them: the tag of the query
\* they came from is not part of it.
Body(docs) ==
  [i \in DOMAIN docs |->
     [id |-> docs[i].id, author |-> docs[i].author, isPublic |-> docs[i].isPublic,
      likes |-> docs[i].likes, comments |-> docs[i].comments,
      createdAt |-> docs[i].createdAt]]

Ids(docs) == {docs[i].id : i \in DOMAIN docs}

\* EngagementScore in which a comment weighs as much as a like.
EngagementScoreUnweighted(d) == Len(d.likes) + Len(d.comments)

\* { $size: '$likes' } + 2 * { $size: '$comments' }
EngagementScore(d) == Len(d.likes) + 2 * Len(d.comments)

(* --------------------------- store queries ---------------------------- *)
\* Descending order on the sort keys <<first, second>>.
KeyBefore(ka, kb) == ka[1] > kb[1] \/ (ka[1] = kb[1] /\ ka[2] > kb[2])

\* The results a descending sort stage may produce for the documents S with
\* sort keys key[id]: every arrangement in which no document stands after
\* one it must precede. Documents with equal keys come in any order.
SortedOrders(S, key) ==
  LET n == Cardinality(S)
  IN  {s \in [1..n -> S] :
         /\ \A i, j \in 1..n : i # j => s[i] # s[j]
         /\ \A i, j \in 1..n : i < j => ~KeyBefore(key[s[j]], key[s[i]])}

\* Query.limit(n) of a find: 0 is no limit, a negative n is |n|.
FindLimit(s, n) == IF n = 0 THEN s ELSE SubSeq(s, 1, Min(Abs(n), Len(s)))

\* { $limit: n } of an aggregation, n > 0.
AggLimit(s, n) == SubSeq(s, 1, Min(n, Len(s)))

\* { $skip: k } of an aggregation, k >= 0.
AggSkip(s, k) == SubSeq(s, k + 1, Len(s))

Docs(s, origin) == [i \in DOMAIN s |-> Doc(s[i], origin)]

(* ------------------------------- Init --------------------------------- *)
\* The places in which an interaction request can be under way.
Slots == {1, 2}
Idle == [pc |-> "idle"]

\* The Home page once mounted: the useState defaults, and the effect on
\* activeTab has called fetchPosts(1, activeTab, true).
HomeMounted ==
  [activeTab |-> "personalized", posts |-> <<>>, loading |-> TRUE,
   currentPage |-> 1, hasMore |-> TRUE, refreshing |-> FALSE,
   fetches |-> <<[page |-> 1, feedType |-> "personalized", refresh |-> TRUE,
                  button |-> FALSE]>>]

\* No user has liked or been notified of anything, no interaction request
\* is under way or answered.
InitAside ==
  /\ likedPosts = [u \in Users |-> <<>>]
  /\ notifications = [u \in Users |-> <<>>]
  /\ reqs = [k \in Slots |-> Idle]
  /\ log = <<>>
  /\ home = HomeMounted

Init ==
  /\ posts = <<>>
  /\ following = [u \in Users |-> <<>>]
  /\ followers = [u \in Users |-> <<>>]
  /\ resp = <<>>
  /\ prev = <<>>
  /\ call = <<>>
  /\ InitAside

(* ----------------------------- feed queries --------------------------- *)
\* FindFollowingPosts in which an empty $in list matches every author.
FindFollowingPostsEmptyInMatchesAll(followingIds, followingPostsCount) ==
  LET match == {id \in PostIds : /\ \/ followingIds = <<>>
                                    \/ Includes(followingIds, posts[id].author)
                                 /\ posts[id].isPublic}
      key == [id \in match |-> <<posts[id].createdAt, 0>>]
  IN  {Docs(FindLimit(s, followingPostsCount), "following") :
         s \in SortedOrders(match, key)}

\* Post.find({ author: { $in: followingIds }, isPublic: true })
\*   .sort({ createdAt: -1 }).limit(followingPostsCount)
FindFollowingPosts(followingIds, followingPostsCount) ==
  LET match == {id \in PostIds : /\ Includes(followingIds, posts[id].author)
                                 /\ posts[id].isPublic}
      key == [id \in match |-> <<posts[id].createdAt, 0>>]
  IN  {Docs(FindLimit(s, followingPostsCount), "following") :
         s \in SortedOrders(match, key)}

\* $size of $setIntersection: ['$likedByUsers._id', followingIds]
LikedByFollowing(id, followingIds) ==
  Cardinality(Range(posts[id].likes) \cap Range(followingIds))

\* AggLikedByFollowing sorted by createdAt alone.
AggLikedByFollowingNewestFirst(viewer, followingIds, followingPosts, recommendedPostsCount) ==
  LET match == {id \in PostIds : /\ id \notin Ids(followingPosts)
                                 /\ posts[id].author # viewer
                                 /\ ~Includes(followingIds, posts[id].author)
                                 /\ posts[id].isPublic
                                 /\ LikedByFollowing(id, followingIds) > 0}
      key == [id \in match |-> <<posts[id].createdAt, 0>>]
  IN  {Docs(AggLimit(s, recommendedPostsCount), "liked") :
         s \in SortedOrders(match, key)}

\* The first aggregation of GET /api/feed: posts liked by followed users.
AggLikedByFollowing(viewer, followingIds, followingPosts, recommendedPostsCount) ==
  LET match == {id \in PostIds : /\ id \notin Ids(followingPosts)
                                 /\ posts[id].author # viewer
                                 /\ ~Includes(followingIds, posts[id].author)
                                 /\ posts[id].isPublic
                                 /\ LikedByFollowing(id, followingIds) > 0}
      key == [id \in match |->
                <<LikedByFollowing(id, followingIds), posts[id].createdAt>>]
  IN  {Docs(AggLimit(s, recommendedPostsCount), "liked") :
         s \in SortedOrders(match, key)}

\* AggPopularPosts without the _id exclusion of its $match.
AggPopularPostsNoIdExclusion(viewer, followingIds, followingPosts, recommendedPosts, remainingCount) ==
  LET match == {id \in PostIds : /\ posts[id].author # viewer
                                 /\ ~Includes(followingIds, posts[id].author)
                                 /\ posts[id].isPublic}
      key == [id \in match |-> <<EngagementScore(posts[id]), posts[id].createdAt>>]
  IN  {Docs(AggLimit(s, remainingCount), "popular") :
         s \in SortedOrders(match, key)}

\* The second aggregation of GET /api/feed: popular posts.
AggPopularPosts(viewer, followingIds, followingPosts, recommendedPosts, remainingCount) ==
  LET match == {id \in PostIds : /\ id \notin Ids(followingPosts) \cup Ids(recommendedPosts)
                                 /\ posts[id].author # viewer
                                 /\ ~Includes(followingIds, posts[id].author)
                                 /\ posts[id].isPublic}
      key == [id \in match |-> <<EngagementScore(posts[id]), posts[id].createdAt>>]
  IN  {Docs(AggLimit(s, remainingCount), "popular") :
         s \in SortedOrders(match, key)}

\* RecommendedPostsCount as the fixed 30% share, whatever the followed
\* authors supplied.
RecommendedPostsCountFixed(limit, followingPosts) == limit - FollowingPostsCount(limit)

\* const recommendedPostsCount = limit - followingPosts.length
RecommendedPostsCount(limit, followingPosts) == limit - Len(followingPosts)

\* UnifiedScore with the recency term left out.
UnifiedScoreEngagementOnly(d) == 30 * EngagementScore(d)

\* The score of allPosts.sort, times 100:
\* (likes + 2 comments) * 0.3 + (getTime() / 1000000) * 0.7, one day being
\* 86.4 units of 1000000 ms.
UnifiedScore(d) == 30 * EngagementScore(d) + 6048 * d.createdAt

\* InsertByScore that puts an element before the elements of equal score.
RECURSIVE InsertByScoreBeforeEqual(_, _)
InsertByScoreBeforeEqual(s, d) ==
  IF s = <<>> THEN <<d>>
  ELSE IF UnifiedScore(d) >= UnifiedScore(Head(s)) THEN <<d>> \o s
       ELSE <<Head(s)>> \o InsertByScoreBeforeEqual(Tail(s), d)

\* Array.prototype.sort((a, b) => bScore - aScore): descending and stable.
RECURSIVE InsertByScore(_, _)
InsertByScore(s, d) ==
  IF s = <<>> THEN <<d>>
  ELSE IF UnifiedScore(d) > UnifiedScore(Head(s)) THEN <<d>> \o s
       ELSE <<Head(s)>> \o InsertByScore(Tail(s), d)

RECURSIVE SortByScore(_)
SortByScore(s) ==
  IF s = <<>> THEN <<>>
  ELSE InsertByScore(SortByScore(SubSeq(s, 1, Len(s) - 1)), s[Len(s)])

\* finalScore of GET /api/feed/trending, times 5:
\* engagementScore * 0.8 + days since creation * 0.2.
FinalScore(id, now) == 4 * EngagementScore(posts[id]) + (now - posts[id].createdAt)

\* DiscoveryScore without the followers of the author.
DiscoveryScoreNoFollowers(id) ==
  4 * Len(posts[id].likes) + 3 * Len(posts[id].comments)

\* discoveryScore of GET /api/feed/discover, times 10. The store adds the
\* three products as doubles; for the small counts that occur here the
\* double sums are ordered, and equal, exactly as the integers below.
DiscoveryScore(id) ==
  4 * Len(posts[id].likes) + 3 * Len(posts[id].comments)
  + 3 * Len(followers[posts[id].author])

\* Post.countDocuments({ isPublic: true })
CountPublic == Cardinality({id \in PostIds : posts[id].isPublic})

\* The $match of GET /api/feed/discover and its countDocuments filter.
DiscoverMatch(viewer, followingIds) ==
  {id \in PostIds : /\ posts[id].author # viewer
                    /\ ~Includes(followingIds, posts[id].author)
                    /\ posts[id].isPublic}

\* AggTrending without the isPublic condition of its $match.
AggTrendingAnyVisibility(now, skip, limit) ==
  LET key == [id \in PostIds |-> <<FinalScore(id, now), 0>>]
  IN  {Docs(AggLimit(AggSkip(s, skip), limit), "trending") :
         s \in SortedOrders(PostIds, key)}

\* The aggregation of GET /api/feed/trending, skip >= 0 and limit > 0.
AggTrending(now, skip, limit) ==
  LET match == {id \in PostIds : posts[id].isPublic}
      key == [id \in match |-> <<FinalScore(id, now), 0>>]
  IN  {Docs(AggLimit(AggSkip(s, skip), limit), "trending") :
         s \in SortedOrders(match, key)}

\* The aggregation of GET /api/feed/discover, skip >= 0 and limit > 0.
AggDiscover(viewer, followingIds, skip, limit) ==
  LET match == DiscoverMatch(viewer, followingIds)
      key == [id \in match |-> <<DiscoveryScore(id), posts[id].createdAt>>]
  IN  {Docs(AggLimit(AggSkip(s, skip), limit), "discover") :
         s \in SortedOrders(match, key)}

(* ----------------------------- feed handlers -------------------------- *)
Request(op, viewer, qp, ql) == [op |-> op, viewer |-> viewer, page |-> qp, limit |-> ql]

\* res.json({ posts, currentPage, totalPages, totalPosts, feedType })
Page(req, calls, docs, page, limit, total, feedType, locals) ==
  [req |-> req, status |-> 200, calls |-> calls, posts |-> docs,
   currentPage |-> page, totalPages |-> CeilDiv(total, limit),
   totalPosts |-> total, feedType |-> feedType, locals |-> locals]

\* res.status(500).json({ message: 'Server error' })
ServerError(req, calls) ==
  [req |-> req, status |-> 500, calls |-> calls, posts |-> <<>>,
   currentPage |-> 0, totalPages |-> 0, totalPosts |-> 0, feedType |-> "none",
   locals |-> <<>>]

\* HasMore with the comparison off by one.
HasMoreInclusive(page, totalPages) == page <= totalPages

\* The client's setHasMore(page < totalPages)
HasMore(page, totalPages) == page < totalPages

\* if (recommendedPostsCount > 0) { postsLikedByFollowing = await ... }
LikedResults(viewer, followingIds, followingPosts, recommendedPostsCount) ==
  IF recommendedPostsCount > 0
  THEN AggLikedByFollowing(viewer, followingIds, followingPosts, recommendedPostsCount)
  ELSE {<<>>}

\* if (recommendedPosts.length < recommendedPostsCount), inside the branch
\* of recommendedPostsCount > 0
NeedPopular(recommendedPostsCount, liked) ==
  recommendedPostsCount > 0 /\ Len(liked) < recommendedPostsCount

\* PopularResults that asks for recommendedPostsCount popular posts however
\* many the liked query returned.
PopularResultsFullCount(viewer, followingIds, followingPosts, liked, recommendedPostsCount) ==
  IF recommendedPostsCount > 0
  THEN AggPopularPosts(viewer, followingIds, followingPosts, liked,
                       recommendedPostsCount)
  ELSE {<<>>}

\* if (recommendedPosts.length < recommendedPostsCount) { popularPosts = await ... }
PopularResults(viewer, followingIds, followingPosts, liked, recommendedPostsCount) ==
  IF NeedPopular(recommendedPostsCount, liked)
  THEN AggPopularPosts(viewer, followingIds, followingPosts, liked,
                       recommendedPostsCount - Len(liked))
  ELSE {<<>>}

\* The store calls of one GET /api/feed, in the order they are awaited.
StoreCalls(recommendedPostsCount, liked, popular) ==
  <<"User.findById", "Post.find">>
  \o (IF recommendedPostsCount > 0 THEN <<"Post.aggregate">> ELSE <<>>)
  \o (IF Len(liked) > 0 THEN <<"Post.populate">> ELSE <<>>)
  \o (IF NeedPopular(recommendedPostsCount, liked) THEN <<"Post.aggregate">> ELSE <<>>)
  \o (IF Len(popular) > 0 THEN <<"Post.populate">> ELSE <<>>)

\* From the concatenation of the query results to res.json.
PersonalizedPage(viewer, qp, ql, followingIds, followingPosts, liked, popular) ==
  LET page == ParseOr(qp, 1)
      limit == ParseOr(ql, 10)
      skip == (page - 1) * limit
      recommendedPostsCount == RecommendedPostsCount(limit, followingPosts)
      recommendedPosts == liked \o popular
      allPosts == SortByScore(followingPosts \o recommendedPosts)
      paginatedPosts == JsSlice(allPosts, skip, skip + limit)
      total == Len(allPosts)
  IN  Page(Request("personalized", viewer, qp, ql),
           StoreCalls(recommendedPostsCount, liked, popular),
           paginatedPosts, page, limit, total, "personalized",
           <<[followingIds |-> followingIds,
              followingPosts |-> followingPosts,
              recommendedPostsCount |-> recommendedPostsCount,
              allPosts |-> allPosts]>>)

\* The responses of one GET /api/feed whose store calls all read the
\* current store.
PersonalizedPages(viewer, qp, ql) ==
  LET limit == ParseOr(ql, 10)
      followingIds == following[viewer]
  IN  UNION {
        UNION {
          {PersonalizedPage(viewer, qp, ql, followingIds, followingPosts, liked, popular) :
             popular \in PopularResults(viewer, followingIds, followingPosts, liked,
                                        RecommendedPostsCount(limit, followingPosts))} :
          liked \in LikedResults(viewer, followingIds, followingPosts,
                                 RecommendedPostsCount(limit, followingPosts))} :
        followingPosts \in FindFollowingPosts(followingIds, FollowingPostsCount(limit))}

\* GET /api/feed, served without any other request in between.
GetPersonalizedFeed(viewer, qp, ql) ==
  /\ resp = <<>>
  /\ \E p \in PersonalizedPages(viewer, qp, ql) : resp' = <<p>>
  /\ UNCHANGED <<store, prev, call, aside>>

\* GET /api/feed/trending. A negative $skip and a $limit that is not
\* positive make the aggregation fail, which the catch answers with 500.
GetTrendingFeed(viewer, qp, ql) ==
  /\ resp = <<>>
  /\ LET page == ParseOr(qp, 1)
         limit == ParseOr(ql, 10)
         skip == (page - 1) * limit
         req == Request("trending", viewer, qp, ql)
     IN  IF skip < 0 \/ limit <= 0
         THEN resp' = <<ServerError(req, <<"Post.aggregate">>)>>
         ELSE \E now \in {LastTime, LastTime + 1} :
              \E trendingPosts \in AggTrending(now, skip, limit) :
                resp' = <<Page(req,
                               <<"Post.aggregate">>
                               \o (IF Len(trendingPosts) > 0
                                   THEN <<"Post.populate">> ELSE <<>>)
                               \o <<"Post.countDocuments">>,
                               trendingPosts, page, limit, CountPublic,
                               "trending", <<>>)>>
  /\ UNCHANGED <<store, prev, call, aside>>

\* GET /api/feed/discover
GetDiscoverFeed(viewer, qp, ql) ==
  /\ resp = <<>>
  /\ LET page == ParseOr(qp, 1)
         limit == ParseOr(ql, 10)
         skip == (page - 1) * limit
         followingIds == following[viewer]
         req == Request("discover", viewer, qp, ql)
     IN  IF skip < 0 \/ limit <= 0
         THEN resp' = <<ServerError(req, <<"User.findById", "Post.aggregate">>)>>
         ELSE \E discoverPosts \in AggDiscover(viewer, followingIds, skip, limit) :
                resp' = <<Page(req,
                               <<"User.findById", "Post.aggregate">>
                               \o (IF Len(discoverPosts) > 0
                                   THEN <<"Post.populate">> ELSE <<>>)
                               \o <<"Post.countDocuments">>,
                               discoverPosts, page, limit,
                               Cardinality(DiscoverMatch(viewer, followingIds)),
                               "discover", <<>>)>>
  /\ UNCHANGED <<store, prev, call, aside>>

(* ------------------------- handlers that write ------------------------ *)
\* A write is served once the response of the last feed request has been
\* delivered (what was observed before the write is no longer an
\* observation of the current store), or between two store calls of a
\* GET /api/feed that is under way, at most MaxWritesInFlight times.
Quiet ==
  /\ resp = <<>>
  /\ IF call = <<>> THEN TRUE ELSE call[1].writes < MaxWritesInFlight

\* A write served while a GET /api/feed is between two of its store calls
\* is counted, and the pages that request would answer with, were it served
\* whole in the store as the write leaves it, join those of the store states
\* it has lived through.
Observe ==
  IF call = <<>> THEN call' = call
  ELSE \E c \in {call[1]} :
         call' = <<[c EXCEPT
                      !.writes = @ + 1,
                      !.pages = @ \cup {Body(p.posts) : p \in PersonalizedPages(
                                  c.req.viewer, c.req.page, c.req.limit)'}]>>

\* POST /api/posts
CreatePost(u, pub) ==
  /\ Quiet
  /\ Len(posts) < MaxPosts
  /\ StoreSize < MaxStoreSize
  /\ \E t \in CreationTimes :
       posts' = Append(posts, [author |-> u, isPublic |-> pub, likes |-> <<>>,
                               comments |-> <<>>, createdAt |-> t])
  /\ prev' = <<>>
  /\ UNCHANGED <<following, followers, resp, aside>>
  /\ Observe

\* Post.addLike
addLike(p, u) ==
  IF ~Includes(p.likes, u) THEN [p EXCEPT !.likes = Append(@, u)] ELSE p

\* Post.removeLike
removeLike(p, u) == [p EXCEPT !.likes = Without(@, u)]

\* POST /api/interactions/like/:postId
LikePost(u, id) ==
  /\ Quiet
  /\ id \in PostIds
  /\ LET isLiked == Includes(posts[id].likes, u)
     IN  IF isLiked
         THEN posts' = [posts EXCEPT ![id] = removeLike(@, u)]
         ELSE /\ StoreSize < MaxStoreSize
              /\ posts' = [posts EXCEPT ![id] = addLike(@, u)]
  /\ prev' = <<>>
  /\ UNCHANGED <<following, followers, resp, aside>>
  /\ Observe

\* Post.addComment
addComment(p, u) == [p EXCEPT !.comments = Append(@, u)]

\* POST /api/interactions/comment/:postId
AddComment(u, id) ==
  /\ Quiet
  /\ id \in PostIds
  /\ StoreSize < MaxStoreSize
  /\ posts' = [posts EXCEPT ![id] = addComment(@, u)]
  /\ prev' = <<>>
  /\ UNCHANGED <<following, followers, resp, aside>>
  /\ Observe

\* POST /api/users/follow/:userId (the 400 answers change nothing)
FollowUser(u, target) ==
  /\ Quiet
  /\ u # target
  /\ ~Includes(following[u], target)
  /\ StoreSize < MaxStoreSize
  /\ following' = [following EXCEPT ![u] = Append(@, target)]
  /\ followers' = [followers EXCEPT ![target] = Append(@, u)]
  /\ prev' = <<>>
  /\ UNCHANGED <<posts, resp, aside>>
  /\ Observe

\* The response leaves the server.
Deliver(keep) ==
  /\ resp # <<>>
  /\ resp' = <<>>
  /\ prev' = IF keep THEN resp ELSE <<>>
  /\ call' = <<>>
  /\ UNCHANGED <<store, aside>>

Write ==
  \/ \E u \in Users, pub \in BOOLEAN : CreatePost(u, pub)
  \/ \E u \in Likers, id \in 1..MaxPosts : LikePost(u, id)
  \/ \E u \in Commenters, id \in 1..MaxPosts : AddComment(u, id)
  \/ \E u \in FollowRequesters, t \in Users : FollowUser(u, t)

Feed ==
  \E viewer \in Viewers, qp \in RawPages, ql \in RawLimits :
    \/ GetPersonalizedFeed(viewer, qp, ql)
    \/ GetTrendingFeed(viewer, qp, ql)
    \/ GetDiscoverFeed(viewer, qp, ql)

\* Feed requests of any page and limit, each answered and delivered before
\* the next one.
Next == Write \/ Feed \/ Deliver(FALSE)

Spec == Init /\ [][Next]_vars

\* A request follows a kept response only with the same operation, viewer
\* and limit, so that the two responses are comparable.
Comparable(op, viewer, ql) ==
  IF prev = <<>> THEN TRUE
  ELSE /\ prev[1].req.op = op
       /\ prev[1].req.viewer = viewer
       /\ prev[1].req.limit = ql

FeedPair ==
  \E viewer \in Viewers, qp \in PairPages, ql \in PairLimits :
    \/ Comparable("personalized", viewer, ql) /\ GetPersonalizedFeed(viewer, qp, ql)
    \/ Comparable("trending", viewer, ql) /\ GetTrendingFeed(viewer, qp, ql)
    \/ Comparable("discover", viewer, ql) /\ GetDiscoverFeed(viewer, qp, ql)

\* Two feed requests in a row against an unchanged store: the delivered
\* response may be kept in prev, and every write clears it.
NextPair == Write \/ FeedPair \/ \E keep \in BOOLEAN : Deliver(keep)

SpecPair == Init /\ [][NextPair]_vars

(* --------------- GET /api/feed, one store call at a time --------------- *)
\* The limits of the requests that are served one store call at a time.
StepLimits == {<<1>>, <<2>>}
\* The pages of the trending and discover requests served beside them.
StepPages == {<<>>, <<-1>>}

\* The authors of the posts created beside them.
StepAuthors == {2, 3}

\* The handler's position and locals: pc is the store call it awaits next,
\* failed the store call that threw. followingAtStart is the viewer's
\* following list when the request arrived; writes and pages are kept by
\* Observe.
Begin(viewer, qp, ql) ==
  /\ resp = <<>>
  /\ call = <<>>
  /\ call' = <<[req |-> Request("personalized", viewer, qp, ql),
                pc |-> "User.findById", failed |-> "none",
                followingAtStart |-> following[viewer],
                followingIds |-> <<>>, followingPosts |-> <<>>,
                liked |-> <<>>, popular |-> <<>>,
                writes |-> 0,
                pages |-> {Body(p.posts) : p \in PersonalizedPages(viewer, qp, ql)}]>>
  /\ UNCHANGED <<store, resp, prev, aside>>

Awaiting(pc) == call # <<>> /\ call[1].pc = pc

\* From the concatenation to res.json, with the locals c of the handler.
JsonResponse(c) ==
  PersonalizedPage(c.req.viewer, c.req.page, c.req.limit, c.followingIds,
                   c.followingPosts, c.liked, c.popular)

\* RunOn that returns after the last store call without calling res.json.
RunOnWithoutResponse(c) ==
  /\ call' = <<c>>
  /\ resp' = resp

\* The handler runs on from a resolved store call to its next await, or,
\* when none is left, through sort and slice to res.json.
RunOn(c) ==
  /\ call' = <<c>>
  /\ resp' = IF c.pc = "done" THEN <<JsonResponse(c)>> ELSE resp

\* FindUser that saves the user document back with an empty following list.
FindUserSavingUser ==
  /\ Awaiting("User.findById")
  /\ RunOn([call[1] EXCEPT !.followingIds = following[call[1].req.viewer],
                           !.pc = "Post.find"])
  /\ following' = [following EXCEPT ![call[1].req.viewer] = <<>>]
  /\ UNCHANGED <<posts, followers, prev, aside>>

\* await User.findById(req.user._id).populate('following')
FindUser ==
  /\ Awaiting("User.findById")
  /\ RunOn([call[1] EXCEPT !.followingIds = following[call[1].req.viewer],
                           !.pc = "Post.find"])
  /\ UNCHANGED <<store, prev, aside>>

\* await Post.find(...), then the test of recommendedPostsCount > 0
FindPosts ==
  /\ Awaiting("Post.find")
  /\ resp = <<>>
  /\ LET c == call[1]
         limit == ParseOr(c.req.limit, 10)
     IN  \E followingPosts \in FindFollowingPosts(c.followingIds,
                                                  FollowingPostsCount(limit)) :
           RunOn([c EXCEPT
                    !.followingPosts = followingPosts,
                    !.pc = IF RecommendedPostsCount(limit, followingPosts) > 0
                           THEN "Post.aggregate liked" ELSE "done"])
  /\ UNCHANGED <<store, prev, aside>>

\* await Post.aggregate (liked by following) and Post.populate, then the
\* test of recommendedPosts.length < recommendedPostsCount
AggregateLiked ==
  /\ Awaiting("Post.aggregate liked")
  /\ resp = <<>>
  /\ LET c == call[1]
         recommendedPostsCount ==
           RecommendedPostsCount(ParseOr(c.req.limit, 10), c.followingPosts)
     IN  \E liked \in LikedResults(c.req.viewer, c.followingIds, c.followingPosts,
                                   recommendedPostsCount) :
           RunOn([c EXCEPT
                    !.liked = liked,
                    !.pc = IF NeedPopular(recommendedPostsCount, liked)
                           THEN "Post.aggregate popular" ELSE "done"])
  /\ UNCHANGED <<store, prev, aside>>

\* await Post.aggregate (popular) and Post.populate
AggregatePopular ==
  /\ Awaiting("Post.aggregate popular")
  /\ resp = <<>>
  /\ LET c == call[1]
         recommendedPostsCount ==
           RecommendedPostsCount(ParseOr(c.req.limit, 10), c.followingPosts)
     IN  \E popular \in PopularResults(c.req.viewer, c.followingIds, c.followingPosts,
                                       c.liked, recommendedPostsCount) :
           RunOn([c EXCEPT !.popular = popular, !.pc = "done"])
  /\ UNCHANGED <<store, prev, aside>>

\* The catch block answering with the page of what was retrieved before
\* the failure.
CatchResponsePartial(c) == JsonResponse(c)

\* catch (error) { res.status(500).json({ message: 'Server error' }) }
CatchResponse(c) ==
  ServerError(c.req,
              StoreCalls(RecommendedPostsCount(ParseOr(c.req.limit, 10), c.followingPosts),
                         c.liked, c.popular))

\* The awaited store call rejects: control passes to the catch block.
StoreCallFails ==
  /\ call # <<>>
  /\ call[1].pc \in {"User.findById", "Post.find", "Post.aggregate liked",
                     "Post.aggregate popular"}
  /\ resp = <<>>
  /\ resp' = <<CatchResponse(call[1])>>
  /\ call' = <<[call[1] EXCEPT !.failed = call[1].pc, !.pc = "done"]>>
  /\ UNCHANGED <<store, prev, aside>>

\* The other two feeds, served whole while no GET /api/feed is under way.
OtherFeed ==
  \E viewer \in Viewers, qp \in StepPages, ql \in StepLimits :
    \/ call = <<>> /\ GetTrendingFeed(viewer, qp, ql)
    \/ call = <<>> /\ GetDiscoverFeed(viewer, qp, ql)

\* The writes served beside them.
WriteBeside ==
  \/ \E u \in StepAuthors : CreatePost(u, TRUE)
  \/ \E u \in Likers, id \in 1..MaxPosts : LikePost(u, id)
  \/ \E u \in FollowRequesters, t \in StepAuthors : FollowUser(u, t)

\* One GET /api/feed at a time, its store calls interleaved with the writes
\* of other requests; any of its store calls may fail.
NextSteps ==
  \/ WriteBeside
  \/ \E viewer \in Viewers, ql \in StepLimits : Begin(viewer, <<>>, ql)
  \/ FindUser
  \/ FindPosts
  \/ AggregateLiked
  \/ AggregatePopular
  \/ StoreCallFails
  \/ OtherFeed
  \/ Deliver(FALSE)

SpecSteps == Init /\ [][NextSteps]_vars

\* The awaited store call settles: it returns or it rejects.
StoreCallSettles ==
  \/ FindUser
  \/ FindPosts
  \/ AggregateLiked
  \/ AggregatePopular
  \/ StoreCallFails

\* SpecSteps over a store whose calls all settle: the promise of a pending
\* store call is resolved or rejected, and the event loop then runs the
\* handler's continuation. Nothing is assumed of the other requests.
SpecStepsFair == SpecSteps /\ WF_vars(StoreCallSettles)

(* ------------------- feeds over the stores of a small site ------------- *)
\* Posts in the store.
SeedPosts == 2
\* A fourth user, so that two followed users can like the post of a user
\* the viewer does not follow.
RankUsers == Users \cup {4}
RankLimits == {<<1>>, <<2>>}

\* The posts that users 1..4 can have created at time t, liked by users 2
\* and 3 and commented by user 2.
SeedPost(t) ==
  [author : RankUsers, isPublic : BOOLEAN,
   likes : {<<>>, <<2>>, <<3>>, <<2, 3>>}, comments : {<<>>, <<2>>},
   createdAt : {t}]

\* Stores the write handlers lead to: SeedPosts posts in the order of their
\* creation, the first at time 0 and each next one at the same instant or a
\* day later; viewer 1 follows nobody, user 2, or users 2 and 3; user 3
\* follows user 4 or nobody.
InitRank ==
  /\ posts \in {s \in [1..SeedPosts -> UNION {SeedPost(t) : t \in 0..(SeedPosts - 1)}] :
                  /\ s[1].createdAt = 0
                  /\ \A i \in 1..(SeedPosts - 1) :
                       s[i + 1].createdAt \in {s[i].createdAt, s[i].createdAt + 1}}
  /\ \E f \in {<<>>, <<2>>, <<2, 3>>}, g \in {<<>>, <<4>>} :
       /\ following = [u \in RankUsers |-> IF u = 1 THEN f ELSE IF u = 3 THEN g ELSE <<>>]
       /\ followers = [u \in RankUsers |->
                         (IF Includes(f, u) THEN <<1>> ELSE <<>>)
                         \o (IF Includes(g, u) THEN <<3>> ELSE <<>>)]
  /\ resp = <<>>
  /\ prev = <<>>
  /\ call = <<>>
  /\ InitAside

FeedRank ==
  \E viewer \in Viewers, ql \in RankLimits :
    \/ GetPersonalizedFeed(viewer, <<>>, ql)
    \/ GetTrendingFeed(viewer, <<>>, ql)
    \/ GetDiscoverFeed(viewer, <<>>, ql)

\* First pages of the three feeds over each of these stores.
NextRank == FeedRank \/ Deliver(FALSE)

SpecRank == InitRank /\ [][NextRank]_vars

(* ------------------------------ properties ---------------------------- *)
Answered == resp # <<>>
R == resp[1]
Succeeded == Answered /\ R.status = 200
IsOp(op) == Answered /\ R.req.op = op

\* The page and the limit the handler works with.
LimitOf(req) == ParseOr(req.limit, 10)

\* page < 1 or pageSize <= 0 was asked for.
InvalidPagination(req) ==
  \/ req.page # <<>> /\ req.page[1] < 1
  \/ req.limit # <<>> /\ req.limit[1] <= 0

NoRepeat(docs) == \A i, j \in DOMAIN docs : i # j => docs[i].id # docs[j].id

CallCount(calls, name) == Cardinality({i \in DOMAIN calls : calls[i] = name})

\* C1: the posts list of one response of GET /api/feed holds no post
\* identity twice, also when a post matches more than one of its queries.
C1_NoDuplicateInPage ==
  IsOp("personalized") /\ Succeeded =>
    /\ NoRepeat(R.posts)
    /\ NoRepeat(R.locals[1].allPosts)

\* A page that returns a post liked by a followed user, which the popular
\* query that also ran would match as well.
C1_Witness ==
  /\ IsOp("personalized") /\ Succeeded
  /\ CallCount(R.calls, "Post.aggregate") = 2
  /\ \E i \in DOMAIN R.posts : R.posts[i].origin = "liked"

\* C2: every post a feed returns is public or authored by the viewer; no
\* private post of another author is in a feed response.
C2_OnlyPublicOrOwn ==
  Succeeded =>
    \A i \in DOMAIN R.posts :
      \/ R.posts[i].isPublic /\ posts[R.posts[i].id].isPublic
      \/ R.posts[i].author = R.req.viewer

\* A feed returns a post while the store holds a private post of another
\* author.
C2_Witness ==
  /\ Succeeded
  /\ R.posts # <<>>
  /\ \E id \in PostIds : ~posts[id].isPublic /\ posts[id].author # R.req.viewer

(* ---------------- two requests against an unchanged store ------------- *)
Pv == prev[1]

\* prev and resp answer requests of the same operation, viewer and limit,
\* both with a page, and no write came between them.
Paired ==
  /\ prev # <<>> /\ Answered
  /\ Pv.status = 200 /\ R.status = 200
  /\ Pv.req.op = R.req.op
  /\ Pv.req.viewer = R.req.viewer
  /\ Pv.req.limit = R.req.limit

IdSeq(docs) == [i \in DOMAIN docs |-> docs[i].id]

\* C3: for each feed, same viewer and page size, unchanged store: the posts
\* of page P and of page P+1 are disjoint, also with equal sort scores.
C3_ConsecutivePagesDisjoint ==
  Paired /\ (R.currentPage = Pv.currentPage + 1 \/ Pv.currentPage = R.currentPage + 1) =>
    Ids(Pv.posts) \cap Ids(R.posts) = {}

\* C4: hasMore = (page < totalPages) is true exactly when totalPosts
\* exceeds page x limit, and of two consecutive pages against an unchanged
\* store the first has hasMore exactly when the second is not empty, so
\* hasMore is false exactly at the last non-empty page.
C4_HasMoreExact ==
  /\ Succeeded =>
       (HasMore(R.currentPage, R.totalPages)
          <=> R.totalPosts > R.currentPage * LimitOf(R.req))
  /\ Paired /\ R.currentPage = Pv.currentPage + 1 =>
       (HasMore(Pv.currentPage, Pv.totalPages) <=> R.posts # <<>>)
  /\ Paired /\ Pv.currentPage = R.currentPage + 1 =>
       (HasMore(R.currentPage, R.totalPages) <=> Pv.posts # <<>>)

\* Page 1 with hasMore, then page 2, the last non-empty page, without.
C4_Witness ==
  /\ Paired
  /\ Pv.currentPage = 1 /\ R.currentPage = 2
  /\ Pv.posts # <<>> /\ R.posts # <<>>
  /\ HasMore(Pv.currentPage, Pv.totalPages)
  /\ ~HasMore(R.currentPage, R.totalPages)

\* C5: two calls of the same feed operation with the same viewer, page and
\* page size against an unchanged store return the same posts in the same
\* order and the same currentPage, totalPages and totalPosts.
C5_SameRequestSameResponse ==
  Paired /\ Pv.req.page = R.req.page =>
    /\ IdSeq(Pv.posts) = IdSeq(R.posts)
    /\ Pv.currentPage = R.currentPage
    /\ Pv.totalPages = R.totalPages
    /\ Pv.totalPosts = R.totalPosts

(* --------------------------- slot allocation -------------------------- *)
\* A page of GET /api/feed for a request with page >= 1 and limit >= 1.
ValidPersonalizedPage ==
  /\ IsOp("personalized") /\ Succeeded
  /\ ~InvalidPagination(R.req)

Followed(viewer) == Range(following[viewer])

\* The public posts by authors the viewer follows.
GraphEligible(viewer) ==
  {id \in PostIds : posts[id].isPublic /\ posts[id].author \in Followed(viewer)}

\* The public posts by authors that are neither the viewer nor followed.
RecommendedEligible(viewer) ==
  {id \in PostIds : /\ posts[id].isPublic
                    /\ posts[id].author # viewer
                    /\ posts[id].author \notin Followed(viewer)}

ByFollowed(docs, viewer) ==
  Cardinality({i \in DOMAIN docs : docs[i].author \in Followed(viewer)})

\* C6: graphSlots = floor(0.7 x L) and recommendedSlots = L - graphSlots;
\* with at least graphSlots public posts by followed authors and at least
\* recommendedSlots eligible recommended posts, the candidate list holds
\* exactly graphSlots posts by followed authors and exactly
\* recommendedSlots posts by other authors.
C6_MixRatio ==
  ValidPersonalizedPage =>
    LET L == LimitOf(R.req)
        graphSlots == (7 * L) \div 10
        recommendedSlots == L - graphSlots
        allPosts == R.locals[1].allPosts
    IN  /\ Cardinality(GraphEligible(R.req.viewer)) >= graphSlots
        /\ Cardinality(RecommendedEligible(R.req.viewer)) >= recommendedSlots
        => /\ ByFollowed(allPosts, R.req.viewer) = graphSlots
           /\ Len(allPosts) - ByFollowed(allPosts, R.req.viewer) = recommendedSlots

\* C7: with only g < graphSlots public posts by followed authors, the
\* recommended queries are asked for L - g posts, and the candidate list
\* has at most L posts.
C7_ShortfallBackfilled ==
  IsOp("personalized") /\ Succeeded =>
    LET L == LimitOf(R.req)
        g == Cardinality(GraphEligible(R.req.viewer))
    IN  g < (7 * L) \div 10 =>
          /\ R.locals[1].recommendedPostsCount = L - g
          /\ Len(R.locals[1].allPosts) <= L

\* One post by a followed author where more graph slots were open, the
\* recommended queries asked for the rest and supplying a post.
C7_Witness ==
  /\ ValidPersonalizedPage
  /\ Cardinality(GraphEligible(R.req.viewer)) = 1
  /\ (7 * LimitOf(R.req)) \div 10 > 1
  /\ R.locals[1].recommendedPostsCount = LimitOf(R.req) - 1
  /\ \E i \in DOMAIN R.locals[1].allPosts : R.locals[1].allPosts[i].origin = "popular"

\* C8: a viewer who follows nobody gets only posts of the recommended
\* queries, none of the followed-authors query, and on page 1 (limit
\* L >= 1) as many public posts by other authors as exist, up to L.
C8_EmptyFollowingAllRecommended ==
  IsOp("personalized") /\ Succeeded /\ following[R.req.viewer] = <<>> =>
    /\ \A i \in DOMAIN R.posts : R.posts[i].origin \in {"liked", "popular"}
    /\ \A i \in DOMAIN R.locals[1].allPosts :
         R.locals[1].allPosts[i].origin \in {"liked", "popular"}
    /\ ~InvalidPagination(R.req) /\ R.currentPage = 1 =>
         Len(R.posts) = Min(LimitOf(R.req),
                            Cardinality(RecommendedEligible(R.req.viewer)))

\* A viewer who follows nobody is served a full page of popular posts
\* while one more eligible post exists.
C8_Witness ==
  /\ ValidPersonalizedPage /\ following[R.req.viewer] = <<>>
  /\ R.currentPage = 1
  /\ Len(R.posts) = LimitOf(R.req)
  /\ Cardinality(RecommendedEligible(R.req.viewer)) > LimitOf(R.req)

(* ------------------------------ edge cases ---------------------------- *)
\* C9: with no post in the store, a feed request (page >= 1, limit >= 1)
\* is answered with status 200, an empty posts list, totalPosts = 0 and
\* totalPages = 0, so that hasMore is false.
C9_EmptyStoreEmptyPage ==
  Answered /\ posts = <<>> /\ ~InvalidPagination(R.req) =>
    /\ R.status = 200
    /\ R.posts = <<>>
    /\ R.totalPosts = 0
    /\ R.totalPages = 0
    /\ ~HasMore(R.currentPage, R.totalPages)

\* The discover feed answers on a store without posts in which the viewer
\* follows somebody.
C9_Witness ==
  /\ IsOp("discover") /\ posts = <<>> /\ ~InvalidPagination(R.req)
  /\ following[R.req.viewer] # <<>>
  /\ R.feedType = "discover"

\* C10: a feed request with page < 1 or pageSize <= 0 is rejected with an
\* error before any store call: no query runs and no page is returned.
C10_InvalidPaginationRejected ==
  Answered /\ InvalidPagination(R.req) =>
    /\ R.status # 200
    /\ R.calls = <<>>

(* ------------------- one store call at a time: failures ---------------- *)
\* The GET /api/feed that was served one store call at a time has answered.
StepAnswered == Answered /\ call # <<>> /\ call[1].pc = "done"

\* C11: when a store call of a personalized feed request fails (the lookup
\* of the viewer, the followed-authors query, the liked-by-followed query or
\* the popular query), the request ends in an error response that carries
\* no posts, never in a page built from the queries that had succeeded.
C11_FailedCallNoPage ==
  (StepAnswered /\ call[1].failed # "none") =>
    /\ R.status = 500
    /\ R.posts = <<>>
    /\ R.feedType = "none"

\* The popular query fails after the followed-authors query had returned a
\* post.
C11_Witness ==
  /\ StepAnswered
  /\ call[1].failed = "Post.aggregate popular"
  /\ Len(call[1].followingPosts) > 0
  /\ R.status = 500

(* ------------------------ order of the personalized page --------------- *)
PersonalizedSucceeded == Succeeded /\ IsOp("personalized")

FromGraph(d) == d.origin = "following"

\* C12 as stated: in the page that getPersonalizedFeed returns, every
\* graph-origin post stands ahead of every recommended post; the two groups
\* are never interleaved by score.
C12_GraphAheadOfRecommended ==
  PersonalizedSucceeded =>
    \A i, j \in DOMAIN R.posts :
      (FromGraph(R.posts[i]) /\ ~FromGraph(R.posts[j])) => i < j

\* C12, amended: in the page that getPersonalizedFeed returns, a recommended
\* post stands ahead of a graph-origin post only when its unified score is
\* strictly higher; among posts of equal unified score the graph-origin
\* posts come first.
C12_GraphAheadUnlessOutscored ==
  PersonalizedSucceeded =>
    \A i, j \in DOMAIN R.posts :
      (i < j /\ ~FromGraph(R.posts[i]) /\ FromGraph(R.posts[j]))
        => UnifiedScore(R.posts[i]) > UnifiedScore(R.posts[j])

\* A page with a graph-origin post and a recommended post of equal score.
C12_Witness ==
  /\ PersonalizedSucceeded
  /\ \E i, j \in DOMAIN R.posts :
       /\ i < j
       /\ FromGraph(R.posts[i])
       /\ ~FromGraph(R.posts[j])
       /\ UnifiedScore(R.posts[i]) = UnifiedScore(R.posts[j])

\* 0.3 x (likeCount + 2 x commentCount) + 0.7 x recencyFactor, times 100,
\* the recencyFactor being the creation time in units of 1000000 ms (86.4 to
\* the day).
StatedUnifiedScore(d) ==
  30 * (Len(d.likes) + 2 * Len(d.comments)) + (70 * 864 * d.createdAt) \div 10

NonIncreasing(docs) ==
  \A i, j \in DOMAIN docs :
    i < j => StatedUnifiedScore(docs[i]) >= StatedUnifiedScore(docs[j])

\* C13: the posts that getPersonalizedFeed returns are in non-increasing
\* order of unifiedScore = 0.3 x (likeCount + 2 x commentCount) + 0.7 x
\* recencyFactor, computed over the combined list of graph-origin and
\* recommended posts; the recencyFactor strictly increases with the
\* creation time, and the order follows the score whatever the origin.
C13_OrderedByUnifiedScore ==
  PersonalizedSucceeded =>
    /\ NonIncreasing(R.locals[1].allPosts)
    /\ NonIncreasing(R.posts)
    /\ \A i, j \in DOMAIN R.locals[1].allPosts :
         LET a == R.locals[1].allPosts[i]
             b == R.locals[1].allPosts[j]
         IN  (EngagementScore(a) = EngagementScore(b) /\ a.createdAt > b.createdAt)
               => i < j

\* A newer recommended post is returned ahead of an older graph-origin post.
C13_Witness ==
  /\ PersonalizedSucceeded
  /\ Len(R.posts) = 2
  /\ ~FromGraph(R.posts[1])
  /\ FromGraph(R.posts[2])
  /\ R.posts[1].createdAt > R.posts[2].createdAt

(* ------------------------------- trending ------------------------------ *)
\* likes + 2 x comments
StatedEngagement(d) == Len(d.likes) + 2 * Len(d.comments)

\* The place of post id in the returned posts, 0 when it is not among them.
Place(id) ==
  IF id \in Ids(R.posts)
  THEN CHOOSE i \in DOMAIN R.posts : R.posts[i].id = id
  ELSE 0

\* C14: in the trending feed, of two public posts of the same age the one
\* with the larger engagementScore = likes + 2 x comments ranks above the
\* other (a comment weighs twice a like); on the first page the lower one
\* is returned only below the higher one.
C14_TrendingByEngagement ==
  (Succeeded /\ IsOp("trending") /\ R.currentPage = 1) =>
    \A a, b \in PostIds :
      ( /\ posts[a].isPublic
        /\ posts[b].isPublic
        /\ posts[a].createdAt = posts[b].createdAt
        /\ StatedEngagement(posts[a]) > StatedEngagement(posts[b])
        /\ Place(b) > 0 )
      => (Place(a) > 0 /\ Place(a) < Place(b))

\* A post with one comment and no like is ranked above a post of the same
\* age with one like and no comment.
C14_Witness ==
  /\ Succeeded
  /\ IsOp("trending")
  /\ Len(R.posts) = 2
  /\ R.posts[1].createdAt = R.posts[2].createdAt
  /\ Len(R.posts[1].likes) = 0 /\ Len(R.posts[1].comments) = 1
  /\ Len(R.posts[2].likes) = 1 /\ Len(R.posts[2].comments) = 0

(* --------------------------- recommended posts ------------------------- *)
\* The documents of the combined list that a given query contributed.
Contributed(origin) ==
  {R.locals[1].allPosts[i] : i \in {k \in DOMAIN R.locals[1].allPosts :
                                      R.locals[1].allPosts[k].origin = origin}}

\* The followed users who liked post id.
FollowedLikers(id, viewer) == {u \in Followed(viewer) : Includes(posts[id].likes, u)}

\* Public, by neither the viewer nor a followed user, liked by a followed user.
CoLiked(viewer) ==
  {id \in PostIds : /\ posts[id].isPublic
                    /\ posts[id].author # viewer
                    /\ posts[id].author \notin Followed(viewer)
                    /\ FollowedLikers(id, viewer) # {}}

\* Post a comes before post b in the order of the liked-by-followed query.
MoreCoLiked(a, b, viewer) ==
  LET na == Cardinality(FollowedLikers(a, viewer))
      nb == Cardinality(FollowedLikers(b, viewer))
  IN  na > nb \/ (na = nb /\ posts[a].createdAt > posts[b].createdAt)

\* C15: every post that the liked-by-followed query contributes to a
\* personalized feed is public, is authored neither by the viewer nor by a
\* followed user, and is liked by at least one followed user; the posts are
\* taken in descending order of the number of followed users who liked
\* them, the newer first among equal numbers: no post left out comes before
\* a post taken, and as many are taken as there are slots and such posts.
C15_LikedByFollowed ==
  PersonalizedSucceeded =>
    LET viewer == R.req.viewer
        taken == {d.id : d \in Contributed("liked")}
        slots == R.locals[1].recommendedPostsCount
    IN  /\ taken \subseteq CoLiked(viewer)
        /\ \A c \in taken : \A e \in CoLiked(viewer) \ taken : ~MoreCoLiked(e, c, viewer)
        /\ Cardinality(taken) = Max(0, Min(slots, Cardinality(CoLiked(viewer))))

\* One slot and two posts liked by followed users: the older post, liked by
\* two of them, is taken and the newer one, liked by one, is not.
C15_Witness ==
  /\ PersonalizedSucceeded
  /\ R.locals[1].recommendedPostsCount = 1
  /\ \E c \in PostIds, e \in CoLiked(R.req.viewer) :
       /\ {d.id : d \in Contributed("liked")} = {c}
       /\ e # c
       /\ Cardinality(FollowedLikers(c, R.req.viewer)) = 2
       /\ Cardinality(FollowedLikers(e, R.req.viewer)) = 1
       /\ posts[e].createdAt > posts[c].createdAt

\* Post a comes before post b in the order of the popular query.
MorePopular(a, b) ==
  \/ StatedEngagement(posts[a]) > StatedEngagement(posts[b])
  \/ /\ StatedEngagement(posts[a]) = StatedEngagement(posts[b])
     /\ posts[a].createdAt > posts[b].createdAt

\* C16: the recommended slots of a personalized feed are filled first from
\* the posts liked by followed users; popular posts are taken only for the
\* slots that remain, in descending order of the raw engagementScore with
\* no adjustment for time, the newer first among equal scores, and never a
\* post that is already selected.
C16_PopularFillsTheRest ==
  PersonalizedSucceeded =>
    LET viewer == R.req.viewer
        slots == Max(0, R.locals[1].recommendedPostsCount)
        graph == Ids(R.locals[1].followingPosts)
        liked == {d.id : d \in Contributed("liked")}
        popular == {d.id : d \in Contributed("popular")}
        left == (RecommendedEligible(viewer) \ graph) \ liked
    IN  /\ Cardinality(liked) = Min(slots, Cardinality(CoLiked(viewer)))
        /\ popular \subseteq left
        /\ Cardinality(popular) = Min(slots - Cardinality(liked), Cardinality(left))
        /\ \A c \in popular : \A e \in left \ popular : ~MorePopular(e, c)

\* Two slots: one goes to a post liked by a followed user, the other to a
\* popular post, although the liked post has the higher engagementScore.
C16_Witness ==
  /\ PersonalizedSucceeded
  /\ R.locals[1].recommendedPostsCount = 2
  /\ \E a, b \in PostIds :
       /\ {d.id : d \in Contributed("liked")} = {a}
       /\ {d.id : d \in Contributed("popular")} = {b}
       /\ MorePopular(a, b)

(* ------------------------------- discover ------------------------------ *)
\* 0.4 x likeCount + 0.3 x commentCount + 0.3 x authorFollowerCount, times 10
StatedDiscoveryScore(id) ==
  4 * Len(posts[id].likes) + 3 * Len(posts[id].comments)
  + 3 * Cardinality({u \in DOMAIN following : Includes(following[u], posts[id].author)})

\* Post a comes before post b in the order of the discover feed.
MoreDiscoverable(a, b) ==
  \/ StatedDiscoveryScore(a) > StatedDiscoveryScore(b)
  \/ /\ StatedDiscoveryScore(a) = StatedDiscoveryScore(b)
     /\ posts[a].createdAt > posts[b].createdAt

C18_GraphPostsMostRecent ==
  (PersonalizedSucceeded /\ ~InvalidPagination(R.req)) =>
    LET viewer == R.req.viewer
        slots == (7 * LimitOf(R.req)) \div 10
        graph == Ids(R.locals[1].followingPosts)
    IN  /\ graph \subseteq GraphEligible(viewer)
        /\ Cardinality(graph) = Min(slots, Cardinality(GraphEligible(viewer)))
        /\ \A c \in graph : \A e \in GraphEligible(viewer) \ graph :
             posts[e].createdAt <= posts[c].createdAt

(* ------------------------------- frame --------------------------------- *)
\* A step of a feed handler: a request is taken up, one of its store calls
\* resolves, or a response is produced.
FeedStep ==
  \/ resp = <<>> /\ resp' # <<>>
  \/ call = <<>> /\ call' # <<>>
  \/ IF call # <<>> /\ call' # <<>> THEN call'[1].pc # call[1].pc ELSE FALSE

\* C19: a personalized, trending or discover feed request, whether it
\* succeeds or fails, leaves the store (posts, likes, comments, follow
\* lists) unchanged.
C19_FeedLeavesStoreUnchanged == [][FeedStep => UNCHANGED store]_vars

\* A personalized feed request has failed at its popular query, over a
\* store with posts and follow edges, after a write was served beside it.
C19_Witness ==
  /\ StepAnswered
  /\ call[1].failed = "Post.aggregate popular"
  /\ call[1].writes > 0
  /\ posts # <<>>
  /\ following[call[1].req.viewer] # <<>>

(* -------------------- one store call at a time: writes ----------------- *)
\* C20: when likes and post creations by other requests are served between
\* the store calls of one personalized feed request (the follow lists stay
\* as they were), the page it returns is the page the same request would
\* compute against one single store state that existed during the request.
C20_PageOfOneStoreState ==
  (StepAnswered /\ Succeeded /\ following[R.req.viewer] = call[1].followingAtStart)
    => Body(R.posts) \in call[1].pages

(* ------------------------- the shape of a page ------------------------ *)
\* The page and the page size a request asks for, with the defaults 1 and
\* 10 of the API for an absent parameter.
RequestedPage(req) == IF req.page = <<>> THEN 1 ELSE req.page[1]
PageSize(req) == IF req.limit = <<>> THEN 10 ELSE req.limit[1]

\* n = ceil(total / size), for size > 0
IsCeil(n, total, size) == n * size >= total /\ (n - 1) * size < total

\* What the store holds for the feed of a response: the candidates of a
\* personalized page, the public posts for trending, the public posts of
\* unfollowed other authors for discover.
StatedTotal ==
  IF R.req.op = "personalized" THEN Len(R.locals[1].allPosts)
  ELSE IF R.req.op = "trending"
       THEN Cardinality({id \in PostIds : posts[id].isPublic})
       ELSE Cardinality({id \in PostIds :
              /\ posts[id].isPublic
              /\ posts[id].author # R.req.viewer
              /\ ~Includes(following[R.req.viewer], posts[id].author)})

\* C21: every page a feed returns carries currentPage equal to the
\* requested page, totalPosts, totalPages = ceil(totalPosts / pageSize) and
\* the feed-type tag of the endpoint called, and its posts list holds at
\* most pageSize items.
C21_PageShape ==
  Succeeded /\ ~InvalidPagination(R.req) =>
    /\ R.currentPage = RequestedPage(R.req)
    /\ R.totalPosts = StatedTotal
    /\ IsCeil(R.totalPages, R.totalPosts, PageSize(R.req))
    /\ R.feedType = R.req.op
    /\ Len(R.posts) <= PageSize(R.req)

\* A personalized page of a request for one post per page, cut out of two
\* candidates: two pages in total.
C21_Witness ==
  /\ IsOp("personalized") /\ Succeeded /\ ~InvalidPagination(R.req)
  /\ PageSize(R.req) = 1
  /\ R.totalPosts = 2 /\ R.totalPages = 2
  /\ Len(R.posts) = 1

(* ----------------------- recency in the trending feed ----------------- *)
\* C23: in the trending feed, of two public posts with equal
\* engagementScore the more recently created one has a final score at least
\* as high as the older one and is not ranked below it: on the first page
\* the older one is returned only below the more recent one.
C23_RecentNotBelowOlder ==
  (Succeeded /\ IsOp("trending") /\ R.currentPage = 1) =>
    \A a, b \in PostIds :
      ( /\ posts[a].isPublic
        /\ posts[b].isPublic
        /\ StatedEngagement(posts[a]) = StatedEngagement(posts[b])
        /\ posts[a].createdAt > posts[b].createdAt )
      => /\ FinalScore(a, LastTime) >= FinalScore(b, LastTime)
         /\ Place(b) > 0 => (Place(a) > 0 /\ Place(a) < Place(b))

(* ------------------- candidates of a personalized page ---------------- *)
\* C27: GET /api/feed assembles at most pageSize candidates in total, so
\* totalPages is at most 1 and a request for page 2 or higher returns an
\* empty posts list.
C27_OnlyFirstPageReachable ==
  (PersonalizedSucceeded /\ ~InvalidPagination(R.req)) =>
    /\ Len(R.locals[1].allPosts) <= PageSize(R.req)
    /\ R.totalPages <= 1
    /\ RequestedPage(R.req) >= 2 => R.posts = <<>>

(* --------------------- every request gets its response ---------------- *)
\* A GET /api/feed is under way.
InFlight == call # <<>>

\* The response of the request under way stays as it is until the request
\* is retired: no second response follows the first.
OneResponse == (InFlight /\ Answered) => (resp' = resp \/ call' = <<>>)

\* A store call that failed is not awaited again, and the handler awaits
\* nothing after it.
NoRetry ==
  (InFlight /\ call[1].failed # "none") =>
    (call' = <<>> \/ (call'[1].pc = "done" /\ call'[1].failed = call[1].failed))

\* C22: every feed request ends in exactly one response, a page or an
\* error: its store calls each return or fail, a failed call is not
\* retried inside the request, and no request waits forever.
C22_EveryRequestAnswered ==
  /\ [](InFlight => <>StepAnswered)
  /\ [](StepAnswered => R.status \in {200, 500})
  /\ [][OneResponse /\ NoRetry]_vars

\* A request is answered with a page after its three queries were awaited
\* one by one, none of them having failed.
C22_Witness ==
  /\ StepAnswered
  /\ Succeeded
  /\ call[1].failed = "none"
  /\ CallCount(R.calls, "Post.aggregate") = 2

(* ------------- interaction requests, one store call at a time ---------- *)
\* Notifications that the user documents may hold.
MaxNotifications == 3

NotificationCount ==
  SumSeq([u \in 1..Cardinality(Users) |-> Len(notifications[u])])

\* The requests under way that may add to the store.
Adding == {k \in Slots : reqs[k].pc # "idle"
                         /\ reqs[k].op \in {"like", "comment", "follow"}}

\* Room is left in the store and in the notifications for what the requests
\* under way and one more may add.
Room ==
  /\ StoreSize + Cardinality(Adding) < MaxStoreSize
  /\ NotificationCount + Cardinality(Adding) < MaxNotifications

\* The documents that a request of user u naming target addresses, as the
\* store holds them: the post, or the requester's following list with the
\* followers and the notifications of the named user (<<>>: no such
\* document).
Snapshot(op, u, target) ==
  IF op \in {"like", "comment", "deleteComment"}
  THEN IF target \in PostIds THEN <<posts[target]>> ELSE <<>>
  ELSE IF target \in Users
       THEN <<[following |-> following[u], followers |-> followers[target],
               notifications |-> notifications[target]]>>
       ELSE <<>>

\* A request as the auth middleware hands it to its handler: req.user is
\* the requester's document as the store holds it now. doc and them are the
\* documents the handler loads (<<>>: not loaded), stale the loaded
\* documents whose __v the store has moved past since, before the
\* documents it addresses as they are at the arrival.
Arrived(op, u, target, comment, pc) ==
  [op |-> op, user |-> u, target |-> target, comment |-> comment, pc |-> pc,
   me |-> following[u], doc |-> <<>>, them |-> <<>>, stale |-> {},
   isLiked |-> FALSE, before |-> Snapshot(op, u, target)]

\* The copies that request r holds of the document of user u, and of post id.
UserCopies(r, u) ==
  (IF r.user = u THEN {"me"} ELSE {})
  \cup (IF r.op \in {"follow", "unfollow"} /\ r.target = u THEN {"them"} ELSE {})
PostCopies(r, id) ==
  IF r.op \in {"like", "comment", "deleteComment"} /\ r.target = id
  THEN {"doc"} ELSE {}

\* document.save() of user u or post id (0: neither) has incremented its
\* __v: the copies that request r holds of it have fallen behind.
Behind(r, u, id) ==
  IF r.pc = "idle" THEN r
  ELSE [r EXCEPT !.stale = @ \cup UserCopies(r, u) \cup PostCopies(r, id)]

\* Request k runs on as r to its next await, having saved the document of
\* user u or post id (0: neither).
GoOn(k, r, u, id) ==
  reqs' = [j \in Slots |-> IF j = k THEN r ELSE Behind(reqs[j], u, id)]

\* The same documents as a step leaves them.
SnapshotAfter(op, u, target) ==
  IF op \in {"like", "comment", "deleteComment"}
  THEN IF target \in DOMAIN posts' THEN <<posts'[target]>> ELSE <<>>
  ELSE IF target \in Users
       THEN <<[following |-> following'[u], followers |-> followers'[target],
               notifications |-> notifications'[target]]>>
       ELSE <<>>

\* Request r repeats the request that was answered last, which succeeded.
Repeats(r) ==
  IF log = <<>> THEN FALSE
  ELSE /\ log[1].status = 200
       /\ log[1].op = r.op /\ log[1].user = r.user /\ log[1].target = r.target

\* What a request was answered with, the documents it addresses as they
\* were at its arrival and as the answer leaves them and, when it repeats
\* the request answered last, as they were at the arrival of that one.
Answer(r, status) ==
  [op |-> r.op, user |-> r.user, target |-> r.target, comment |-> r.comment,
   status |-> status, isLiked |-> (r.op = "like" /\ status = 200 /\ ~r.isLiked),
   before |-> r.before, after |-> SnapshotAfter(r.op, r.user, r.target),
   prior |-> IF Repeats(r) THEN log[1].before ELSE <<>>]

\* No request but the one in slot k is under way.
Alone(k) == \A j \in Slots \ {k} : reqs[j] = Idle

\* The answer given last is kept while the requests are served one at a
\* time: it goes when a request is taken up beside another one, and the
\* answer to a request that ends beside another one is not kept.
Logged(k, a) == IF Alone(k) THEN <<a>> ELSE <<>>
Kept(k) == IF Alone(k) THEN log ELSE <<>>

\* res.status(status).json(...) of request k, after a save of the document
\* of user u or post id (0: neither).
Responds(k, status, u, id) ==
  /\ GoOn(k, Idle, u, id)
  /\ log' = Logged(k, Answer(reqs[k], status))

At(k, op, pc) == reqs[k].pc = pc /\ reqs[k].op = op

\* The variables of the feed requests.
feeds == <<resp, prev, call, home>>

(* --------------------- POST /api/interactions/like/:postId ------------- *)
\* A request that will find the post liked by the requester, no other
\* request being under way, adds nothing.
LikeArrives(k, u, id) ==
  /\ reqs[k] = Idle
  /\ IF id \in PostIds /\ \A j \in Slots : reqs[j] = Idle
     THEN Includes(posts[id].likes, u) \/ Room
     ELSE Room
  /\ reqs' = [reqs EXCEPT ![k] = Arrived("like", u, id, 0, "Post.findById")]
  /\ log' = Kept(k)
  /\ UNCHANGED <<store, likedPosts, notifications, feeds>>

\* LikeFindsPost that takes the post as not liked by the requester.
LikeFindsPostNeverLiked(k) ==
  /\ At(k, "like", "Post.findById")
  /\ UNCHANGED <<store, likedPosts, notifications, feeds>>
  /\ LET r == reqs[k]
     IN  IF r.target \notin PostIds
         THEN Responds(k, 404, 0, 0)
         ELSE /\ GoOn(k, [r EXCEPT !.doc = <<posts[r.target]>>,
                                   !.stale = @ \ {"doc"},
                                   !.isLiked = FALSE,
                                   !.pc = "post.save"], 0, 0)
              /\ log' = log

\* const post = await Post.findById(req.params.postId), the 404 and
\* isLiked = post.likes.includes(req.user._id)
LikeFindsPost(k) ==
  /\ At(k, "like", "Post.findById")
  /\ UNCHANGED <<store, likedPosts, notifications, feeds>>
  /\ LET r == reqs[k]
     IN  IF r.target \notin PostIds
         THEN Responds(k, 404, 0, 0)
         ELSE /\ GoOn(k, [r EXCEPT !.doc = <<posts[r.target]>>,
                                   !.stale = @ \ {"doc"},
                                   !.isLiked = Includes(posts[r.target].likes, r.user),
                                   !.pc = "post.save"], 0, 0)
              /\ log' = log

\* await post.removeLike(req.user._id): the filtered array is assigned, so
\* save() sends $set likes with the loaded __v in its filter and throws a
\* VersionError when the store has moved past it (the catch answers 500).
\* await post.addLike(req.user._id): the loaded array does not include the
\* user, the push is sent as $push likes and applies to the store's array
\* whatever its __v.
LikeSavesPost(k) ==
  /\ At(k, "like", "post.save")
  /\ UNCHANGED <<following, followers, likedPosts, notifications, feeds>>
  /\ LET r == reqs[k]
         mine == IF r.isLiked THEN removeLike(r.doc[1], r.user)
                 ELSE addLike(r.doc[1], r.user)
     IN  IF r.isLiked /\ "doc" \in r.stale
         THEN posts' = posts /\ Responds(k, 500, 0, 0)
         ELSE /\ posts' = [posts EXCEPT ![r.target].likes =
                             IF r.isLiked THEN mine.likes
                             ELSE IF mine.likes # r.doc[1].likes
                                  THEN Append(@, r.user) ELSE @]
              /\ GoOn(k, [r EXCEPT !.doc = <<mine>>, !.pc = "User.findByIdAndUpdate"],
                      0, r.target)
              /\ log' = log

\* await User.findByIdAndUpdate(req.user._id, { $pull / $push: { likedPosts } })
\* then, after a like, the test of post.author against the requester
LikeUpdatesUser(k) ==
  /\ At(k, "like", "User.findByIdAndUpdate")
  /\ UNCHANGED <<store, notifications, log, feeds>>
  /\ LET r == reqs[k]
     IN  /\ likedPosts' = [likedPosts EXCEPT ![r.user] =
                             IF r.isLiked THEN Without(@, r.target)
                             ELSE Append(@, r.target)]
         /\ GoOn(k, [r EXCEPT !.pc = IF ~r.isLiked /\ r.doc[1].author # r.user
                                     THEN "notify" ELSE "Post.findById again"],
                 0, 0)

\* await User.findByIdAndUpdate(post.author, { $push: { notifications } })
LikeNotifies(k) ==
  /\ At(k, "like", "notify")
  /\ UNCHANGED <<store, likedPosts, log, feeds>>
  /\ LET r == reqs[k]
     IN  /\ notifications' = [notifications EXCEPT ![r.doc[1].author] =
               Append(@, [type |-> "like", from |-> r.user, post |-> r.target])]
         /\ GoOn(k, [r EXCEPT !.pc = "Post.findById again"], 0, 0)

\* const updatedPost = await Post.findById(...) and
\* res.json({ message, post: updatedPost, isLiked: !isLiked })
LikeResponds(k) ==
  /\ At(k, "like", "Post.findById again")
  /\ UNCHANGED <<store, likedPosts, notifications, feeds>>
  /\ Responds(k, 200, 0, 0)

(* ------------------------ POST /api/users/follow/:userId --------------- *)
\* The handler is entered; a request to follow oneself is answered 400 at
\* once, before any await.
FollowArrives(k, u, target) ==
  /\ reqs[k] = Idle
  /\ Room
  /\ UNCHANGED <<store, likedPosts, notifications, feeds>>
  /\ LET r == Arrived("follow", u, target, 0, "User.findById")
     IN  IF u = target
         THEN reqs' = reqs /\ log' = Logged(k, Answer(r, 400))
         ELSE reqs' = [reqs EXCEPT ![k] = r] /\ log' = Kept(k)

\* FollowFindsUser without the test of req.user.following.includes(...).
FollowFindsUserUnchecked(k) ==
  /\ At(k, "follow", "User.findById")
  /\ UNCHANGED <<store, likedPosts, notifications, feeds>>
  /\ LET r == reqs[k]
     IN  IF r.target \notin Users
         THEN Responds(k, 404, 0, 0)
         ELSE /\ GoOn(k, [r EXCEPT !.me = Append(@, r.target),
                                   !.them = <<followers[r.target]>>,
                                   !.stale = @ \ {"them"},
                                   !.pc = "req.user.save"], 0, 0)
              /\ log' = log

\* const userToFollow = await User.findById(req.params.userId), the 404,
\* the 400 of req.user.following.includes(...) and the push on req.user
FollowFindsUser(k) ==
  /\ At(k, "follow", "User.findById")
  /\ UNCHANGED <<store, likedPosts, notifications, feeds>>
  /\ LET r == reqs[k]
     IN  IF r.target \notin Users
         THEN Responds(k, 404, 0, 0)
         ELSE IF Includes(r.me, r.target)
              THEN Responds(k, 400, 0, 0)
              ELSE /\ GoOn(k, [r EXCEPT !.me = Append(@, r.target),
                                        !.them = <<followers[r.target]>>,
                                        !.stale = @ \ {"them"},
                                        !.pc = "req.user.save"], 0, 0)
                   /\ log' = log

\* await req.user.save(): $push following
FollowSavesMe(k) ==
  /\ At(k, "follow", "req.user.save")
  /\ UNCHANGED <<posts, followers, likedPosts, notifications, log, feeds>>
  /\ LET r == reqs[k]
     IN  /\ following' = [following EXCEPT ![r.user] = Append(@, r.target)]
         /\ GoOn(k, [r EXCEPT !.pc = "userToFollow.save"], r.user, 0)

\* userToFollow.followers.push(req.user._id); await userToFollow.save()
FollowSavesThem(k) ==
  /\ At(k, "follow", "userToFollow.save")
  /\ UNCHANGED <<posts, following, likedPosts, notifications, log, feeds>>
  /\ LET r == reqs[k]
     IN  /\ followers' = [followers EXCEPT ![r.target] = Append(@, r.user)]
         /\ GoOn(k, [r EXCEPT !.them = <<Append(@[1], r.user)>>,
                              !.pc = "userToFollow.save again"], r.target, 0)

\* userToFollow.notifications.push(...); await userToFollow.save();
\* res.json({ message: 'User followed successfully' })
FollowNotifies(k) ==
  /\ At(k, "follow", "userToFollow.save again")
  /\ UNCHANGED <<store, likedPosts, feeds>>
  /\ notifications' = [notifications EXCEPT ![reqs[k].target] =
                         Append(@, [type |-> "follow", from |-> reqs[k].user, post |-> 0])]
  /\ Responds(k, 200, reqs[k].target, 0)

(* ----------------------- DELETE /api/users/follow/:userId -------------- *)
UnfollowArrives(k, u, target) ==
  /\ reqs[k] = Idle
  /\ reqs' = [reqs EXCEPT ![k] = Arrived("unfollow", u, target, 0, "User.findById")]
  /\ log' = Kept(k)
  /\ UNCHANGED <<store, likedPosts, notifications, feeds>>

\* const userToUnfollow = await User.findById(req.params.userId), the 404
\* and the assignment of the filtered array to req.user.following
UnfollowFindsUser(k) ==
  /\ At(k, "unfollow", "User.findById")
  /\ UNCHANGED <<store, likedPosts, notifications, feeds>>
  /\ LET r == reqs[k]
     IN  IF r.target \notin Users
         THEN Responds(k, 404, 0, 0)
         ELSE /\ GoOn(k, [r EXCEPT !.them = <<followers[r.target]>>,
                                   !.stale = @ \ {"them"},
                                   !.pc = "req.user.save"], 0, 0)
              /\ log' = log

\* await req.user.save(). An array assigned with its former elements is
\* not modified and nothing is sent; otherwise save() sends $set following
\* with the loaded __v in its filter, and throws a VersionError when the
\* store has moved past it (the catch answers 500).
UnfollowSavesMe(k) ==
  /\ At(k, "unfollow", "req.user.save")
  /\ UNCHANGED <<posts, followers, likedPosts, notifications, feeds>>
  /\ LET r == reqs[k]
         mine == Without(r.me, r.target)
     IN  IF mine = r.me
         THEN /\ following' = following
              /\ GoOn(k, [r EXCEPT !.pc = "userToUnfollow.save"], 0, 0)
              /\ log' = log
         ELSE IF "me" \in r.stale
              THEN following' = following /\ Responds(k, 500, 0, 0)
              ELSE /\ following' = [following EXCEPT ![r.user] = mine]
                   /\ GoOn(k, [r EXCEPT !.me = mine, !.pc = "userToUnfollow.save"],
                           r.user, 0)
                   /\ log' = log

\* userToUnfollow.followers = userToUnfollow.followers.filter(...);
\* await userToUnfollow.save(); res.json({ message: 'User unfollowed ...' })
UnfollowSavesThem(k) ==
  /\ At(k, "unfollow", "userToUnfollow.save")
  /\ UNCHANGED <<posts, following, likedPosts, notifications, feeds>>
  /\ LET r == reqs[k]
         theirs == Without(r.them[1], r.user)
     IN  IF theirs = r.them[1]
         THEN followers' = followers /\ Responds(k, 200, 0, 0)
         ELSE IF "them" \in r.stale
              THEN followers' = followers /\ Responds(k, 500, 0, 0)
              ELSE /\ followers' = [followers EXCEPT ![r.target] = theirs]
                   /\ Responds(k, 200, r.target, 0)

(* ------------------- POST /api/interactions/comment/:postId ------------ *)
\* The handler is entered; a body that fails the validation of content is
\* answered 400 at once.
CommentArrives(k, u, id, valid) ==
  /\ reqs[k] = Idle
  /\ Room
  /\ UNCHANGED <<store, likedPosts, notifications, feeds>>
  /\ LET r == Arrived("comment", u, id, 0, "Post.findById")
     IN  IF ~valid
         THEN reqs' = reqs /\ log' = Logged(k, Answer(r, 400))
         ELSE reqs' = [reqs EXCEPT ![k] = r] /\ log' = Kept(k)

\* const post = await Post.findById(req.params.postId) and the 404
CommentFindsPost(k) ==
  /\ At(k, "comment", "Post.findById")
  /\ UNCHANGED <<store, likedPosts, notifications, feeds>>
  /\ LET r == reqs[k]
     IN  IF r.target \notin PostIds
         THEN Responds(k, 404, 0, 0)
         ELSE /\ GoOn(k, [r EXCEPT !.doc = <<posts[r.target]>>,
                                   !.stale = @ \ {"doc"},
                                   !.pc = "post.save"], 0, 0)
              /\ log' = log

\* await post.addComment(req.user._id, content): $push comments, then the
\* test of post.author against the requester
CommentSavesPost(k) ==
  /\ At(k, "comment", "post.save")
  /\ UNCHANGED <<following, followers, likedPosts, notifications, log, feeds>>
  /\ LET r == reqs[k]
     IN  /\ posts' = [posts EXCEPT ![r.target].comments = Append(@, r.user)]
         /\ GoOn(k, [r EXCEPT !.doc = <<addComment(@[1], r.user)>>,
                              !.pc = IF r.doc[1].author # r.user
                                     THEN "notify" ELSE "Post.findById again"],
                 0, r.target)

\* await User.findByIdAndUpdate(post.author, { $push: { notifications } })
CommentNotifies(k) ==
  /\ At(k, "comment", "notify")
  /\ UNCHANGED <<store, likedPosts, log, feeds>>
  /\ LET r == reqs[k]
     IN  /\ notifications' = [notifications EXCEPT ![r.doc[1].author] =
               Append(@, [type |-> "comment", from |-> r.user, post |-> r.target])]
         /\ GoOn(k, [r EXCEPT !.pc = "Post.findById again"], 0, 0)

\* const updatedPost = await Post.findById(...) and res.json
CommentResponds(k) ==
  /\ At(k, "comment", "Post.findById again")
  /\ UNCHANGED <<store, likedPosts, notifications, feeds>>
  /\ Responds(k, 200, 0, 0)

(* ----------- DELETE /api/interactions/comment/:postId/:commentId ------- *)
\* The sequence s without its element at position i.
RemoveAt(s, i) == SubSeq(s, 1, i - 1) \o SubSeq(s, i + 1, Len(s))

\* A comment is named by its position in the post's comments, which stands
\* for its _id as long as no other request changes the comments of the post
\* meanwhile: the request is taken up while no other one is under way.
DeleteCommentArrives(k, u, id, c) ==
  /\ \A j \in Slots : reqs[j] = Idle
  /\ reqs' = [reqs EXCEPT ![k] = Arrived("deleteComment", u, id, c, "Post.findById")]
  /\ UNCHANGED <<store, likedPosts, notifications, log, feeds>>

\* DeleteCommentFindsPost that lets every authenticated user pass.
DeleteCommentFindsPostAnyUser(k) ==
  /\ At(k, "deleteComment", "Post.findById")
  /\ UNCHANGED <<store, likedPosts, notifications, feeds>>
  /\ LET r == reqs[k]
     IN  IF r.target \notin PostIds
         THEN Responds(k, 404, 0, 0)
         ELSE IF r.comment \notin DOMAIN posts[r.target].comments
              THEN Responds(k, 404, 0, 0)
              ELSE /\ GoOn(k, [r EXCEPT !.doc = <<posts[r.target]>>,
                                        !.stale = @ \ {"doc"},
                                        !.pc = "post.save"], 0, 0)
                   /\ log' = log

\* const post = await Post.findById(req.params.postId), the 404 of the
\* post, post.comments.id(req.params.commentId) and its 404, and the 401 of
\* a requester who is neither comment.user nor post.author
DeleteCommentFindsPost(k) ==
  /\ At(k, "deleteComment", "Post.findById")
  /\ UNCHANGED <<store, likedPosts, notifications, feeds>>
  /\ LET r == reqs[k]
     IN  IF r.target \notin PostIds
         THEN Responds(k, 404, 0, 0)
         ELSE IF r.comment \notin DOMAIN posts[r.target].comments
              THEN Responds(k, 404, 0, 0)
              ELSE IF /\ posts[r.target].comments[r.comment] # r.user
                      /\ posts[r.target].author # r.user
                   THEN Responds(k, 401, 0, 0)
                   ELSE /\ GoOn(k, [r EXCEPT !.doc = <<posts[r.target]>>,
                                             !.stale = @ \ {"doc"},
                                             !.pc = "post.save"], 0, 0)
                        /\ log' = log

\* comment.remove(); await post.save(): $pull comments by _id
DeleteCommentSavesPost(k) ==
  /\ At(k, "deleteComment", "post.save")
  /\ UNCHANGED <<following, followers, likedPosts, notifications, log, feeds>>
  /\ LET r == reqs[k]
     IN  /\ posts' = [posts EXCEPT ![r.target].comments = RemoveAt(@, r.comment)]
         /\ GoOn(k, [r EXCEPT !.doc = <<[@[1] EXCEPT !.comments = RemoveAt(@, r.comment)]>>,
                              !.pc = "Post.findById again"], 0, r.target)

\* const updatedPost = await Post.findById(...) and res.json
DeleteCommentResponds(k) ==
  /\ At(k, "deleteComment", "Post.findById again")
  /\ UNCHANGED <<store, likedPosts, notifications, feeds>>
  /\ Responds(k, 200, 0, 0)

(* ------------------- the interaction requests, one by one -------------- *)
\* The users that issue interaction requests, the users and posts they
\* name (0: a user that does not exist; 2: a post that does not).
Members == {1, 2, 3}
NamedUsers == {0, 1, 2}
NamedPosts == {1, 2}
NamedComments == {1, 2}

\* A like request in slot k runs on from the store call it awaits; so do
\* a comment, a delete-comment, a follow and an unfollow request.
LikeRunsOn(k) ==
  \/ LikeFindsPost(k)
  \/ LikeSavesPost(k)
  \/ LikeUpdatesUser(k)
  \/ LikeNotifies(k)
  \/ LikeResponds(k)

CommentRunsOn(k) ==
  \/ CommentFindsPost(k)
  \/ CommentSavesPost(k)
  \/ CommentNotifies(k)
  \/ CommentResponds(k)

DeleteCommentRunsOn(k) ==
  \/ DeleteCommentFindsPost(k)
  \/ DeleteCommentSavesPost(k)
  \/ DeleteCommentResponds(k)

FollowRunsOn(k) ==
  \/ FollowFindsUser(k)
  \/ FollowSavesMe(k)
  \/ FollowSavesThem(k)
  \/ FollowNotifies(k)

UnfollowRunsOn(k) ==
  \/ UnfollowFindsUser(k)
  \/ UnfollowSavesMe(k)
  \/ UnfollowSavesThem(k)

\* The first post is created, before any request names it.
FirstPost ==
  /\ posts = <<>>
  /\ \A k \in Slots : reqs[k] = Idle
  /\ \E u \in Members : CreatePost(u, TRUE)

\* Like requests on one post, each answered before the next is taken up.
NextLikes ==
  \/ FirstPost
  \/ \E u \in Members, id \in NamedPosts : LikeArrives(1, u, id)
  \/ LikeRunsOn(1)

SpecLikes == Init /\ [][NextLikes]_vars

\* Comment and delete-comment requests on one post, one after the other.
NextComments ==
  \/ FirstPost
  \/ \E u \in Members, id \in NamedPosts, valid \in BOOLEAN : CommentArrives(1, u, id, valid)
  \/ CommentRunsOn(1)
  \/ \E u \in Members, id \in NamedPosts, c \in NamedComments :
       DeleteCommentArrives(1, u, id, c)
  \/ DeleteCommentRunsOn(1)

SpecComments == Init /\ [][NextComments]_vars

\* Follow and unfollow requests, one after the other.
NextFollows ==
  \/ \E u \in Members, t \in NamedUsers : FollowArrives(1, u, t)
  \/ FollowRunsOn(1)
  \/ \E u \in Members, t \in NamedUsers : UnfollowArrives(1, u, t)
  \/ UnfollowRunsOn(1)

SpecFollows == Init /\ [][NextFollows]_vars

(* --------------------------- the like toggle --------------------------- *)
\* The request answered last, and whether it was a request of kind op
\* answered with status.
A == log[1]
WasAnswered(op, status) == log # <<>> /\ A.op = op /\ A.status = status

\* The answered like request found the requester among the likes of the
\* post and removed them, or did not find them and added them once, and
\* reported the new state.
Toggled ==
  LET was == A.before[1].likes
      is == A.after[1].likes
  IN  /\ IF Includes(was, A.user)
         THEN Range(is) = Range(was) \ {A.user} /\ Len(is) = Len(was) - 1
         ELSE Range(is) = Range(was) \cup {A.user} /\ Len(is) = Len(was) + 1
      /\ A.isLiked = Includes(is, A.user)
      /\ A.isLiked = ~Includes(was, A.user)

\* C24 as stated: a like request adds the requester to the post's likes if
\* they are not in them and removes them otherwise, and reports isLiked as
\* the new state; two like requests by the same user on the same post, run
\* one after the other, restore the post's likes to what they were before.
C24_LikeTogglesAndRestores ==
  WasAnswered("like", 200) =>
    /\ Toggled
    /\ A.prior # <<>> => A.after[1].likes = A.prior[1].likes

\* C24, amended: a like request toggles as stated; two like requests by the
\* same user on the same post, run one after the other, restore the set of
\* users who like the post and their number, not the order of the list: a
\* user who unlikes and likes again moves to its end.
C24_LikeTogglesAndRestoresLikers ==
  WasAnswered("like", 200) =>
    /\ Toggled
    /\ A.prior # <<>> =>
         /\ Range(A.after[1].likes) = Range(A.prior[1].likes)
         /\ Len(A.after[1].likes) = Len(A.prior[1].likes)
         /\ Without(A.after[1].likes, A.user) = Without(A.prior[1].likes, A.user)

\* A user who stood first of two in the likes has unliked and liked again.
C24_Witness ==
  /\ WasAnswered("like", 200)
  /\ A.prior # <<>>
  /\ Len(A.prior[1].likes) = 2
  /\ A.prior[1].likes[1] = A.user
  /\ A.isLiked

(* ------------------------ follow requests refused ---------------------- *)
\* C25: a follow request whose target is the requester, or whose target is
\* already in the requester's following list, is answered with status 400
\* and leaves the following list, the target's followers list and the
\* target's notifications unchanged.
C25_FollowRefused ==
  (/\ log # <<>>
   /\ A.op = "follow"
   /\ A.before # <<>>
   /\ (A.target = A.user \/ Includes(A.before[1].following, A.target)))
  => /\ A.status = 400
     /\ A.after[1].following = A.before[1].following
     /\ A.after[1].followers = A.before[1].followers
     /\ A.after[1].notifications = A.before[1].notifications

\* A user who follows another one, who was notified of it, asks to follow
\* them again.
C25_Witness ==
  /\ WasAnswered("follow", 400)
  /\ A.target # A.user
  /\ Includes(A.before[1].following, A.target)
  /\ Includes(A.before[1].followers, A.user)
  /\ A.before[1].notifications # <<>>

(* ---------------------- who may delete a comment ----------------------- *)
\* The delete-comment request answered last named a comment of the post.
NamedAComment ==
  /\ log # <<>>
  /\ A.op = "deleteComment"
  /\ A.before # <<>>
  /\ A.comment \in DOMAIN A.before[1].comments

\* C26: a delete-comment request by a user who is neither the author of
\* the comment nor the author of the post is answered with status 401 and
\* leaves the post's comments unchanged; only the comment's author or the
\* post's author can remove a comment.
C26_DeleteCommentAuthorized ==
  NamedAComment =>
    LET was == A.before[1].comments
        is == A.after[1].comments
        entitled == was[A.comment] = A.user \/ A.before[1].author = A.user
    IN  /\ ~entitled => (A.status = 401 /\ is = was)
        /\ is # was => (entitled /\ A.status = 200 /\ is = RemoveAt(was, A.comment))

\* A user asks to delete a comment written by a second user on the post of
\* a third one.
C26_Witness ==
  /\ NamedAComment
  /\ A.status = 401
  /\ A.before[1].comments[A.comment] # A.user
  /\ A.before[1].author # A.user
  /\ A.before[1].author # A.before[1].comments[A.comment]

(* ---------------------- requests served side by side ------------------- *)
\* The users whose requests are served side by side.
Racers == {1, 2}

\* Like requests on one post; a request is taken up while another one is
\* between two of its store calls.
NextLikeRaces ==
  \/ FirstPost
  \/ \E k \in Slots, u \in Racers, id \in NamedPosts : LikeArrives(k, u, id)
  \/ \E k \in Slots : LikeRunsOn(k)

SpecLikeRaces == Init /\ [][NextLikeRaces]_vars

\* C28: after any interleaving of like requests, also of two like requests
\* by the same user on the same post served side by side, the post's likes
\* list contains each user at most once.
C28_NoUserLikesTwice ==
  \A id \in PostIds :
    \A i, j \in DOMAIN posts[id].likes :
      i # j => posts[id].likes[i] # posts[id].likes[j]

\* Follow and unfollow requests; a request is taken up while another one
\* is between two of its store calls.
NextFollowRaces ==
  \/ \E k \in Slots, u \in Racers, t \in Racers : FollowArrives(k, u, t)
  \/ \E k \in Slots : FollowRunsOn(k)
  \/ \E k \in Slots, u \in Racers, t \in Racers : UnfollowArrives(k, u, t)
  \/ \E k \in Slots : UnfollowRunsOn(k)

SpecFollowRaces == Init /\ [][NextFollowRaces]_vars

\* C29: whenever no follow or unfollow request is under way, for all users
\* a and b: b is in a's following list exactly when a is in b's followers
\* list, after any interleaving of completed follow and unfollow requests.
C29_FollowingMirrorsFollowers ==
  (\A k \in Slots : reqs[k] = Idle) =>
    \A a, b \in Users : Includes(following[a], b) <=> Includes(followers[b], a)

(* ------------------------- the Home page of the client ----------------- *)
\* Calls of fetchPosts that may await their response at the same time, the
\* page that Load More may ask for at most, and the pages of posts that the
\* list may show.
MaxFetches == 2
MaxClientPage == 2
MaxShown == 2

Tabs == {"personalized", "trending", "discover"}
\* The totalPages that a response may carry.
TotalPages == {1, 2}

\* fetchPosts(page, feedType, refresh) up to its await: setLoading(true)
\* and the GET is sent. button: the call was made by handleRefresh.
FetchPosts(h, page, feedType, refresh, button) ==
  [h EXCEPT !.loading = TRUE,
            !.fetches = Append(@, [page |-> page, feedType |-> feedType,
                                   refresh |-> refresh, button |-> button])]

\* handleTabChange(tab), and the effect on activeTab when it has changed
HandleTabChange(tab) ==
  /\ Len(home.fetches) < MaxFetches
  /\ LET h == [home EXCEPT !.activeTab = tab, !.currentPage = 1, !.hasMore = TRUE]
     IN  home' = IF tab # home.activeTab THEN FetchPosts(h, 1, tab, TRUE, FALSE) ELSE h
  /\ UNCHANGED <<store, resp, prev, call, likedPosts, notifications, reqs, log>>

\* handleLoadMore
HandleLoadMore ==
  /\ ~home.loading /\ home.hasMore
  /\ home.currentPage < MaxClientPage
  /\ Len(home.fetches) < MaxFetches
  /\ Len(home.posts) + Len(home.fetches) < MaxShown
  /\ home' = FetchPosts([home EXCEPT !.currentPage = @ + 1],
                        home.currentPage + 1, home.activeTab, FALSE, FALSE)
  /\ UNCHANGED <<store, resp, prev, call, likedPosts, notifications, reqs, log>>

\* handleRefresh up to its await; the button is disabled while refreshing.
HandleRefresh ==
  /\ ~home.refreshing
  /\ Len(home.fetches) < MaxFetches
  /\ home' = FetchPosts([home EXCEPT !.refreshing = TRUE], 1, home.activeTab, TRUE, TRUE)
  /\ UNCHANGED <<store, resp, prev, call, likedPosts, notifications, reqs, log>>

\* The posts of a response: none, or the posts of the page of the feed
\* that was asked for.
NewPosts(f) == {<<>>, <<[feedType |-> f.feedType, page |-> f.page]>>}

\* fetchPosts from the response on: setPosts, setCurrentPage, setHasMore,
\* setLoading(false), and setRefreshing(false) back in handleRefresh
FetchResolved(h, f, newPosts, totalPages) ==
  [h EXCEPT
     !.posts = IF f.refresh \/ f.page = 1 THEN newPosts ELSE @ \o newPosts,
     !.currentPage = IF f.refresh THEN 1 ELSE @,
     !.hasMore = HasMore(f.page, totalPages),
     !.loading = FALSE,
     !.refreshing = IF f.button THEN FALSE ELSE @]

\* The response of one of the GETs under way arrives.
FetchResolves ==
  /\ \E i \in DOMAIN home.fetches, totalPages \in TotalPages :
       \E newPosts \in NewPosts(home.fetches[i]) :
         home' = FetchResolved([home EXCEPT !.fetches = RemoveAt(@, i)],
                               home.fetches[i], newPosts, totalPages)
  /\ UNCHANGED <<store, resp, prev, call, likedPosts, notifications, reqs, log>>

\* One of the GETs under way fails: the catch of fetchPosts
FetchFails ==
  /\ \E i \in DOMAIN home.fetches :
       home' = [home EXCEPT !.fetches = RemoveAt(@, i),
                            !.loading = FALSE,
                            !.refreshing = IF home.fetches[i].button THEN FALSE ELSE @]
  /\ UNCHANGED <<store, resp, prev, call, likedPosts, notifications, reqs, log>>

\* The user's clicks on the Home page and the responses to its GETs, in
\* any order.
NextHome ==
  \/ \E tab \in Tabs : HandleTabChange(tab)
  \/ HandleLoadMore
  \/ HandleRefresh
  \/ FetchResolves
  \/ FetchFails

SpecHome == Init /\ [][NextHome]_vars

\* C30: in the Home page, once all feed requests under way have completed,
\* the displayed posts list holds only posts fetched for the active tab:
\* the response of a fetch started for a tab that was active before is
\* never appended to the active tab's list nor written over it.
C30_OnlyPostsOfActiveTab ==
  home.fetches = <<>> =>
    \A i \in DOMAIN home.posts : home.posts[i].feedType = home.activeTab

====
